---- MODULE Spec2Model ----
(***************************************************************************)
(* PneumoScan (src/app.py): the Flask handlers /predict, /chat and         *)
(* /download-report as a state machine.                                    *)
(*                                                                         *)
(* Text that the code inspects character by character (the upload's file   *)
(* name, the form fields and the chat message, all of which are stripped,  *)
(* split or lower-cased) is a sequence of one-character strings.  A model  *)
(* score k stands for the real number k / ScoreGrid, and a percentage is   *)
(* an integer number of hundredths (8800 is 88.00), so that round(x, 2) is *)
(* exact integer arithmetic.  Scores outside [0, 1] and NaN are not        *)
(* modelled, nor is the error of the floating-point representation.        *)
(*                                                                         *)
(* A handler is cut into steps at its blocking calls (the two model calls, *)
(* the LLM call), where another thread's request can run.  Requests are    *)
(* within MAX_CONTENT_LENGTH, and file.save succeeds.                      *)
(***************************************************************************)
EXTENDS Integers, Sequences, FiniteSets, TLC

\* ------------------------------------------------------------------ bounds
\* A score is k / ScoreGrid for k in 0..ScoreGrid.
ScoreGrid == 1600
\* datetime.now() is drawn from 1..MaxTime.
MaxTime == 1
\* At most MaxUuid names are drawn from uuid.uuid4(), each one fresh.
MaxUuid == 2

\* ------------------------------------------------------------------ text
Whitespace == {" "}

RECURSIVE LStrip(_)
LStrip(s) ==
    IF s # <<>> /\ Head(s) \in Whitespace THEN LStrip(Tail(s)) ELSE s

RECURSIVE RStrip(_)
RStrip(s) ==
    IF s # <<>> /\ s[Len(s)] \in Whitespace
    THEN RStrip(SubSeq(s, 1, Len(s) - 1))
    ELSE s

\* str.strip()
Strip(s) == RStrip(LStrip(s))

\* str.lower(), on the letters the inputs use
LowerChar(c) ==
    CASE c = "P" -> "p"
      [] c = "N" -> "n"
      [] c = "G" -> "g"
      [] c = "J" -> "j"
      [] c = "T" -> "t"
      [] c = "X" -> "x"
      [] OTHER -> c

Lower(s) == [i \in 1..Len(s) |-> LowerChar(s[i])]

\* "." in filename
HasDot(s) == \E i \in 1..Len(s) : s[i] = "."

\* the position of the last "." of s (s has one)
LastDot(s) == CHOOSE i \in 1..Len(s) : s[i] = "." /\ \A j \in (i + 1)..Len(s) : s[j] # "."

\* filename.rsplit(".", 1)[1], for a filename with a "."
RSplitExt(s) == SubSeq(s, LastDot(s) + 1, Len(s))

ALLOWED_EXTENSIONS ==
    { <<"p", "n", "g">>, <<"j", "p", "g">>, <<"j", "p", "e", "g">>,
      <<"b", "m", "p">>, <<"w", "e", "b", "p">> }

\* the position of the first "." of s (s has one)
FirstDot(s) == CHOOSE i \in 1..Len(s) : s[i] = "." /\ \A j \in 1..(i - 1) : s[j] # "."

\* filename.split(".")[1], for a filename with a "."
SplitSecond(s) ==
    LET rest == SubSeq(s, FirstDot(s) + 1, Len(s))
    IN  IF HasDot(rest) THEN SubSeq(rest, 1, FirstDot(rest) - 1) ELSE rest

\* mutant of allowed_file: split in place of rsplit
AllowedFileSplit(filename) ==
    HasDot(filename) /\ Lower(SplitSecond(filename)) \in ALLOWED_EXTENSIONS

allowed_file(filename) ==
    HasDot(filename) /\ Lower(RSplitExt(filename)) \in ALLOWED_EXTENSIONS

\* ---------------------------------------------------------------- scores
Scores == 0..ScoreGrid

\* XRAY_THRESHOLD = 0.5 and the literal 0.5 of the label test, as fractions
XRAY_THRESHOLD == [num |-> 1, den |-> 2]
LABEL_THRESHOLD == [num |-> 1, den |-> 2]

\* k / ScoreGrid < th and k / ScoreGrid > th
ScoreLt(k, th) == k * th.den < th.num * ScoreGrid
ScoreGt(k, th) == k * th.den > th.num * ScoreGrid

\* round(num / den, 0) as Python rounds: to nearest, a tie to the even neighbour
RoundHalfEven(num, den) ==
    LET q == num \div den
        r == num % den
    IN  IF 2 * r < den THEN q
        ELSE IF 2 * r > den THEN q + 1
        ELSE IF q % 2 = 0 THEN q ELSE q + 1

\* round(pred * 100, 2), in hundredths of a percent
PctOf(k) == RoundHalfEven(10000 * k, ScoreGrid)

\* mutant of PctOfComplement: round((1 - pred) * 100, 1)
PctOfComplementOneDecimal(k) == 10 * RoundHalfEven(1000 * (ScoreGrid - k), ScoreGrid)

\* round((1 - pred) * 100, 2), in hundredths of a percent
PctOfComplement(k) == RoundHalfEven(10000 * (ScoreGrid - k), ScoreGrid)

\* mutant of Label: pred >= 0.5, as src/utils/app.py has it
LabelInclusive(k) == IF ScoreLt(k, LABEL_THRESHOLD) THEN "NORMAL" ELSE "PNEUMONIA"

\* the label and the confidence of a classifier score
Label(k) == IF ScoreGt(k, LABEL_THRESHOLD) THEN "PNEUMONIA" ELSE "NORMAL"

Confidence(k) ==
    IF ScoreGt(k, LABEL_THRESHOLD) THEN PctOf(k) ELSE PctOfComplement(k)

\* ----------------------------------------------------------------- state
Threads == {"A", "B"}

VARIABLES
    groq_client,      \* TRUE when the Groq client was built at start-up
    latest_analysis,  \* the global dict; EmptyDict until a prediction succeeds
    files,            \* the names of the files in UPLOAD_FOLDER
    uuids,            \* how many uuid4() names have been drawn
    pc,               \* per thread: where its handler stands
    req,              \* per thread: the request it serves or served last
    local,            \* per thread: the handler's local variables
    resp,             \* per thread: the response of its last finished request
    eff               \* per thread: what the current request has done so far

vars == <<groq_client, latest_analysis, files, uuids, pc, req, local, resp, eff>>

\* {} and the truth value of a dict
EmptyDict == [k \in {} |-> 0]
Truthy(d) == DOMAIN d # {}
NoRequest == [route |-> "none"]
NoLocals == [of |-> "none"]
NoResponse == [status |-> 0, mimetype |-> "none", body |-> [none |-> TRUE]]
NoEffects == [gate |-> 0, cls |-> 0, llm |-> 0, wrote |-> 0, saved |-> 0]

\* jsonify(body), status
Json(status, body) == [status |-> status, mimetype |-> "application/json", body |-> body]

\* what Flask answers when the handler raises: werkzeug's HTML error page for
\* an HTTPException, the HTML 500 page (the debugger's traceback under
\* debug=True) for any other exception
Escaped(status, exc) == [status |-> status, mimetype |-> "text/html", body |-> [exception |-> exc]]

\* send_file(report_path, as_attachment=True, ...)
Pdf(name, image) ==
    [status |-> 200, mimetype |-> "application/pdf", body |-> [file |-> name, image |-> image]]

Idle(t) == pc[t] \in {"idle", "done"}

Init ==
    /\ groq_client \in BOOLEAN
    /\ latest_analysis = EmptyDict
    /\ files = {}
    /\ uuids = 0
    /\ pc = [t \in Threads |-> "idle"]
    /\ req = [t \in Threads |-> NoRequest]
    /\ local = [t \in Threads |-> NoLocals]
    /\ resp = [t \in Threads |-> NoResponse]
    /\ eff = [t \in Threads |-> NoEffects]

Finish(t, r) ==
    /\ pc' = [pc EXCEPT ![t] = "done"]
    /\ resp' = [resp EXCEPT ![t] = r]

\* --------------------------------------------------------------- /predict
\* bool(file) of request.files.get("xray"): None when the part is absent, and a
\* FileStorage is falsy when its filename is empty
FileTruthy(file) == file.present /\ file.filename # <<>>

BadUploadResponse ==
    Json(400, [error |-> "Please upload a valid image (png, jpg, jpeg, bmp, webp)."])

\* mutant of PreprocessFailedResponse: the failure answered as a server error,
\* as src/utils/app.py does
PreprocessFailedAsServerError == Json(500, [error |-> "cannot identify image file"])

PreprocessFailedResponse ==
    Json(200, [prediction |-> "Invalid Image",
               message |-> "Could not process the uploaded file. Please upload a valid image."])

NotXrayResponse ==
    Json(200, [prediction |-> "Invalid Image",
               message |-> "This does not appear to be a chest X-ray. Please upload a valid chest X-ray image."])

\* mutant of Stage1FailedResponse: the failure answered as a rejected image
Stage1FailedAsInvalid(e) == NotXrayResponse

Stage1FailedResponse(e) == Json(500, [error |-> <<"X-ray detection failed: ", e>>])

Stage2FailedResponse(e) == Json(500, [error |-> <<"Pneumonia prediction failed: ", e>>])

\* mutant of GateRejects: xray_pred <= XRAY_THRESHOLD
GateRejectsInclusive(xray_pred) == ~ScoreGt(xray_pred, XRAY_THRESHOLD)

\* xray_pred < XRAY_THRESHOLD
GateRejects(xray_pred) == ScoreLt(xray_pred, XRAY_THRESHOLD)

\* "the patient"
THE_PATIENT == <<"t", "h", "e", " ", "p", "a", "t", "i", "e", "n", "t">>

\* mutant of StoredAnalysis: the name stored as given
StoredAnalysisRawName(pred, patient_name, now) ==
    [prediction |-> Label(pred),
     confidence |-> Confidence(pred),
     patient_name |-> patient_name,
     pneumonia_prob |-> PctOf(pred),
     normal_prob |-> PctOfComplement(pred),
     timestamp |-> now]

\* mutant of StoredAnalysis: the slot updated in place, a name that was not
\* given leaving the stored one
StoredAnalysisMerged(pred, patient_name, now) ==
    [prediction |-> Label(pred),
     confidence |-> Confidence(pred),
     patient_name |-> IF patient_name # <<>> THEN patient_name
                      ELSE IF Truthy(latest_analysis) THEN latest_analysis.patient_name
                      ELSE THE_PATIENT,
     pneumonia_prob |-> PctOf(pred),
     normal_prob |-> PctOfComplement(pred),
     timestamp |-> now]

\* the dict assigned to latest_analysis
StoredAnalysis(pred, patient_name, now) ==
    [prediction |-> Label(pred),
     confidence |-> Confidence(pred),
     patient_name |-> IF patient_name # <<>> THEN patient_name ELSE THE_PATIENT,
     pneumonia_prob |-> PctOf(pred),
     normal_prob |-> PctOfComplement(pred),
     timestamp |-> now]

\* the dict returned to the caller
ResultBody(pred, l) ==
    [prediction |-> Label(pred),
     confidence |-> Confidence(pred),
     pneumonia_prob |-> PctOf(pred),
     normal_prob |-> PctOfComplement(pred),
     image_filename |-> l.filename,
     patient_name |-> l.patient_name,
     patient_age |-> l.patient_age,
     notes |-> l.notes]

\* lines 77-89: read the form, validate the upload, save it
PredictBegin(t, forms, uploads) ==
    /\ Idle(t)
    /\ \E form \in forms, file \in uploads :
          /\ req' = [req EXCEPT ![t] = [route |-> "/predict", form |-> form, file |-> file]]
          /\ IF ~FileTruthy(file) \/ ~allowed_file(file.filename)
             THEN /\ Finish(t, BadUploadResponse)
                  /\ local' = [local EXCEPT ![t] = NoLocals]
                  /\ eff' = [eff EXCEPT ![t] = NoEffects]
                  /\ UNCHANGED <<files, uuids>>
             ELSE LET filename == [uuid |-> uuids + 1,
                                   ext |-> Lower(RSplitExt(file.filename))]
                  IN  /\ uuids < MaxUuid
                      /\ uuids' = uuids + 1
                      /\ files' = files \cup {filename}
                      /\ local' = [local EXCEPT ![t] =
                             [of |-> "/predict",
                              patient_name |-> Strip(form.patient_name),
                              patient_age |-> Strip(form.patient_age),
                              notes |-> Strip(form.notes),
                              filename |-> filename,
                              xray_pred |-> -1,
                              pred |-> -1,
                              e |-> ""]]
                      /\ eff' = [eff EXCEPT ![t] = [NoEffects EXCEPT !.saved = 1]]
                      /\ pc' = [pc EXCEPT ![t] = "preprocess"]
                      /\ resp' = [resp EXCEPT ![t] = NoResponse]
    /\ UNCHANGED <<groq_client, latest_analysis>>

\* lines 92-98: preprocess_image raises on a file PIL cannot decode
PredictPreprocess(t) ==
    /\ pc[t] = "preprocess"
    /\ IF req[t].file.decodable
       THEN /\ pc' = [pc EXCEPT ![t] = "stage1"]
            /\ UNCHANGED resp
       ELSE Finish(t, PreprocessFailedResponse)
    /\ UNCHANGED <<groq_client, latest_analysis, files, uuids, req, local, eff>>

\* what a model call does: it raises e, or returns the score
Raises(e) == [raised |-> TRUE, e |-> e, score |-> -1]
Returns(k) == [raised |-> FALSE, e |-> "", score |-> k]
ExceptionTexts == {"ResourceExhaustedError"}
ModelOutcomes(scores) == {Raises(e) : e \in ExceptionTexts} \cup {Returns(k) : k \in scores}

\* lines 101-111: the X-ray detector
PredictStage1(t, scores) ==
    /\ pc[t] = "stage1"
    /\ \E o \in ModelOutcomes(scores) :
          /\ eff' = [eff EXCEPT ![t].gate = @ + 1]
          /\ IF o.raised
             THEN /\ Finish(t, Stage1FailedResponse(o.e))
                  /\ local' = [local EXCEPT ![t].e = o.e]
             ELSE /\ local' = [local EXCEPT ![t].xray_pred = o.score]
                  /\ IF GateRejects(o.score)
                     THEN Finish(t, NotXrayResponse)
                     ELSE /\ pc' = [pc EXCEPT ![t] = "stage2"]
                          /\ UNCHANGED resp
    /\ UNCHANGED <<groq_client, latest_analysis, files, uuids, req>>

\* lines 114-149: the pneumonia classifier, the stored context, the result
PredictStage2(t, scores) ==
    /\ pc[t] = "stage2"
    /\ \E o \in ModelOutcomes(scores) :
          IF o.raised
          THEN /\ eff' = [eff EXCEPT ![t].cls = @ + 1]
               /\ Finish(t, Stage2FailedResponse(o.e))
               /\ local' = [local EXCEPT ![t].e = o.e]
               /\ UNCHANGED latest_analysis
          ELSE \E now \in 1..MaxTime :
               /\ eff' = [eff EXCEPT ![t].cls = @ + 1, ![t].wrote = @ + 1]
               /\ local' = [local EXCEPT ![t].pred = o.score]
               /\ latest_analysis' = StoredAnalysis(o.score, local[t].patient_name, now)
               /\ Finish(t, Json(200, ResultBody(o.score, local[t])))
    /\ UNCHANGED <<groq_client, files, uuids, req>>

\* ------------------------------------------------------------------ /chat
UNAVAILABLE == "AI assistant is temporarily unavailable. Please try again later."

ChatUnavailableResponse == Json(200, [reply |-> UNAVAILABLE])

ChatEmptyResponse == Json(400, [reply |-> "Please say something."])

\* mutant of ChatFailedResponse: the status left at its default
ChatFailedAs200 == Json(200, [reply |-> UNAVAILABLE])

ChatFailedResponse == Json(500, [reply |-> UNAVAILABLE])

\* How request.json fails.  Without a JSON content type Flask 2.1 and later
\* raise UnsupportedMediaType (415) and earlier ones return None, on which
\* .get raises AttributeError; the Flask version is not pinned.  A body that is
\* not valid JSON raises BadRequest (400).
JsonFailures(body) ==
    CASE body.json = "no_json_mimetype" ->
             {Escaped(415, "UnsupportedMediaType"), Escaped(500, "AttributeError")}
      [] body.json = "malformed" -> {Escaped(400, "BadRequest")}
      [] body.json = "array" -> {Escaped(500, "AttributeError")}
      [] OTHER -> {}

\* context_str before line 163
NoContext == [tested |-> FALSE, report |-> FALSE, read |-> FALSE, values |-> <<>>]

\* request.json.get("message", "")
MessageOf(body) == IF body.message.given THEN body.message ELSE [given |-> TRUE, str |-> TRUE, text |-> <<>>]

\* history: the prediction and the name of the /predict request that the
\* caller made just before this one, if it succeeded
OwnAnalysis(l) ==
    IF l.of = "/predict" /\ l.pred >= 0
    THEN [given |-> TRUE, pred |-> l.pred, patient_name |-> l.patient_name]
    ELSE [given |-> FALSE, pred |-> -1, patient_name |-> <<>>]

\* lines 154-159: the availability test, then the message
ChatBegin(t, bodies) ==
    /\ Idle(t)
    /\ \E body \in bodies :
          /\ req' = [req EXCEPT ![t] = [route |-> "/chat", body |-> body]]
          /\ eff' = [eff EXCEPT ![t] = NoEffects]
          /\ IF ~groq_client
             THEN /\ Finish(t, ChatUnavailableResponse)
                  /\ local' = [local EXCEPT ![t] = NoLocals]
             ELSE IF JsonFailures(body) # {}
             THEN /\ \E r \in JsonFailures(body) : Finish(t, r)
                  /\ local' = [local EXCEPT ![t] = NoLocals]
             ELSE IF ~MessageOf(body).str
             THEN /\ Finish(t, Escaped(500, "AttributeError"))
                  /\ local' = [local EXCEPT ![t] = NoLocals]
             ELSE LET user_msg == Strip(MessageOf(body).text)
                  IN  IF user_msg = <<>>
                      THEN /\ Finish(t, ChatEmptyResponse)
                           /\ local' = [local EXCEPT ![t] = NoLocals]
                      ELSE /\ pc' = [pc EXCEPT ![t] = "context"]
                           /\ resp' = [resp EXCEPT ![t] = NoResponse]
                           /\ local' = [local EXCEPT ![t] =
                                  [of |-> "/chat", user_msg |-> user_msg,
                                   context_str |-> NoContext,
                                   own |-> OwnAnalysis(local[t]),
                                   response |-> [raised |-> FALSE, choices |-> <<>>]]]
    /\ UNCHANGED <<groq_client, latest_analysis, files, uuids>>

\* the keys of latest_analysis in the order lines 166-171 read them
CONTEXT_KEYS ==
    <<"patient_name", "prediction", "confidence", "pneumonia_prob", "normal_prob", "timestamp">>

\* d.get(key)
Get(d, key) == IF key \in DOMAIN d THEN d[key] ELSE "None"

\* context_str with every value taken from the one dict d
ContextOf(d) ==
    IF Truthy(d)
    THEN [tested |-> TRUE, report |-> TRUE, read |-> TRUE,
          values |-> [i \in 1..Len(CONTEXT_KEYS) |-> Get(d, CONTEXT_KEYS[i])]]
    ELSE [tested |-> TRUE, report |-> FALSE, read |-> TRUE, values |-> <<>>]

\* lines 162-190, one load of the global latest_analysis per step: the test of
\* line 163, then the six .get calls of lines 166-171 in order; other threads
\* run between the loads
ChatContext(t) ==
    /\ pc[t] = "context"
    /\ LET c == local[t].context_str
           n == Len(c.values)
       IN  IF ~c.tested
           THEN IF Truthy(latest_analysis)
                THEN /\ local' = [local EXCEPT
                                     ![t].context_str = [c EXCEPT !.tested = TRUE, !.report = TRUE]]
                     /\ UNCHANGED pc
                ELSE /\ local' = [local EXCEPT
                                     ![t].context_str = ContextOf(latest_analysis)]
                     /\ pc' = [pc EXCEPT ![t] = "llm"]
           ELSE /\ local' = [local EXCEPT
                                ![t].context_str =
                                    [c EXCEPT !.values = Append(c.values, Get(latest_analysis, CONTEXT_KEYS[n + 1])),
                                              !.read = (n + 1 = Len(CONTEXT_KEYS))]]
                /\ pc' = [pc EXCEPT ![t] = IF n + 1 = Len(CONTEXT_KEYS) THEN "llm" ELSE "context"]
    /\ UNCHANGED <<groq_client, latest_analysis, files, uuids, req, resp, eff>>

\* what groq_client.chat.completions.create does: it raises, or returns choices
Replies == {"reply one", "reply two"}
LlmOutcomes ==
    {[raised |-> TRUE, choices |-> <<>>]}
    \cup {[raised |-> FALSE, choices |-> c] :
             c \in {<<>>} \cup {<<r>> : r \in Replies} \cup {<<"reply one", "reply two">>}}

\* the call made again when it fails, instead of the except branch's return
ChatCallRetrying(t) ==
    /\ pc[t] = "llm"
    /\ \E o \in LlmOutcomes :
          /\ eff' = [eff EXCEPT ![t].llm = @ + 1]
          /\ local' = [local EXCEPT ![t].response = o]
          /\ IF o.raised \/ o.choices = <<>>
             THEN UNCHANGED <<pc, resp>>
             ELSE Finish(t, Json(200, [reply |-> o.choices[1]]))
    /\ UNCHANGED <<groq_client, latest_analysis, files, uuids, req>>

\* lines 192-206: the call; response.choices[0] raises IndexError on no choice
ChatCall(t) ==
    /\ pc[t] = "llm"
    /\ \E o \in LlmOutcomes :
          /\ eff' = [eff EXCEPT ![t].llm = @ + 1]
          /\ local' = [local EXCEPT ![t].response = o]
          /\ IF o.raised \/ o.choices = <<>>
             THEN Finish(t, ChatFailedResponse)
             ELSE Finish(t, Json(200, [reply |-> o.choices[1]]))
    /\ UNCHANGED <<groq_client, latest_analysis, files, uuids, req>>

\* ------------------------------------------------------- /download-report
\* os.path.join(UPLOAD_FOLDER, image_filename) if it names an existing file
ImagePath(image_filename) ==
    IF image_filename.given /\ image_filename.name \in files
    THEN image_filename
    ELSE [given |-> FALSE, name |-> [uuid |-> 0, ext |-> <<>>]]

\* lines 210-241: the whole handler; generate_report raises while it draws the
\* chart of probabilities that are not numbers, before the PDF is written
DownloadReport(t, payloads) ==
    /\ Idle(t)
    /\ \E data \in payloads :
          /\ req' = [req EXCEPT ![t] = [route |-> "/download-report", data |-> data]]
          /\ local' = [local EXCEPT ![t] = NoLocals]
          /\ IF data.json = "malformed"
             THEN /\ Finish(t, Escaped(400, "BadRequest"))
                  /\ eff' = [eff EXCEPT ![t] = NoEffects]
                  /\ UNCHANGED <<files, uuids>>
             ELSE IF data.json = "array"
             THEN /\ Finish(t, Escaped(500, "AttributeError"))
                  /\ eff' = [eff EXCEPT ![t] = NoEffects]
                  /\ UNCHANGED <<files, uuids>>
             ELSE LET report_name == [uuid |-> uuids + 1, ext |-> <<"p", "d", "f">>]
                  IN  /\ uuids < MaxUuid
                      /\ uuids' = uuids + 1
                      /\ IF ~data.numeric
                         THEN /\ Finish(t, Escaped(500, "ValueError"))
                              /\ eff' = [eff EXCEPT ![t] = NoEffects]
                              /\ UNCHANGED files
                         ELSE /\ files' = files \cup {report_name}
                              /\ eff' = [eff EXCEPT ![t] = [NoEffects EXCEPT !.saved = 1]]
                              /\ Finish(t, Pdf(report_name, ImagePath(data.image_filename)))
    /\ UNCHANGED <<groq_client, latest_analysis>>

\* ---------------------------------------------------------------- inputs
Form(name, age, notes) == [patient_name |-> name, patient_age |-> age, notes |-> notes]

Forms ==
    { Form(<<" ">>, <<>>, <<" ">>),
      Form(<<" ", "A", "n", " ">>, <<"4", "0">>, <<"f", "e", "v", "e", "r">>) }

NoFile == [present |-> FALSE, filename |-> <<>>, decodable |-> FALSE]
Upload(filename, decodable) == [present |-> TRUE, filename |-> filename, decodable |-> decodable]

Uploads ==
    { NoFile,
      Upload(<<>>, TRUE),
      Upload(<<"x">>, TRUE),
      Upload(<<"x", ".">>, TRUE),
      Upload(<<"x", ".", "t", "x", "t">>, TRUE),
      Upload(<<"x", ".", "t", "x", "t">>, FALSE),
      Upload(<<"x", ".", "p", "n", "g", ".", "t", "x", "t">>, TRUE),
      Upload(<<"x", ".", "p", "n", "g">>, TRUE),
      Upload(<<"x", ".", "p", "n", "g">>, FALSE),
      Upload(<<"x", ".", "P", "N", "G">>, TRUE),
      Upload(<<"x", ".", "t", "x", "t", ".", "J", "p", "g">>, TRUE),
      Upload(<<".", "j", "p", "g">>, FALSE) }

\* the scores of the specification Spec: around 0.5, and the 0.92 and 0.12
\* of the end-to-end scenario
GateSamples == { ScoreGrid \div 2 - 1, ScoreGrid \div 2, (92 * ScoreGrid) \div 100 }
ClassifierSamples == { (12 * ScoreGrid) \div 100, ScoreGrid \div 2, ScoreGrid \div 2 + 1 }

Message(given, str, text) == [given |-> given, str |-> str, text |-> text]
ChatBody(json, message) == [json |-> json, message |-> message]

ChatBodies ==
    { ChatBody("no_json_mimetype", Message(FALSE, FALSE, <<>>)),
      ChatBody("malformed", Message(FALSE, FALSE, <<>>)),
      ChatBody("array", Message(FALSE, FALSE, <<>>)),
      ChatBody("object", Message(FALSE, FALSE, <<>>)),
      ChatBody("object", Message(TRUE, FALSE, <<>>)),
      ChatBody("object", Message(TRUE, TRUE, <<>>)),
      ChatBody("object", Message(TRUE, TRUE, <<" ", " ">>)),
      ChatBody("object", Message(TRUE, TRUE, <<" ", "h", "i">>)) }

NoImage == [given |-> FALSE, name |-> [uuid |-> 0, ext |-> <<>>]]
ImageNamed(name) == [given |-> TRUE, name |-> name]

\* the payloads of /download-report: the image it names is one of the stored
\* files, a file that does not exist, or none
Payloads ==
    { [json |-> "malformed", numeric |-> FALSE, image_filename |-> NoImage],
      [json |-> "array", numeric |-> FALSE, image_filename |-> NoImage] }
    \cup [json : {"object"}, numeric : BOOLEAN,
          image_filename : {NoImage, ImageNamed([uuid |-> 0, ext |-> <<"p", "n", "g">>])}
                           \cup {ImageNamed(f) : f \in files}]

\* ----------------------------------------------------------- specification
\* One request after another, served by thread A.
Predict(t) ==
    \/ PredictBegin(t, Forms, Uploads)
    \/ PredictPreprocess(t)
    \/ PredictStage1(t, GateSamples)
    \/ PredictStage2(t, ClassifierSamples)

Chat(t) ==
    \/ ChatBegin(t, ChatBodies)
    \/ ChatContext(t)
    \/ ChatCall(t)

Next == Predict("A") \/ Chat("A") \/ DownloadReport("A", Payloads)

Spec == Init /\ [][Next]_vars

\* A /predict request of thread A that has saved x.png and stands at pc, for
\* the specifications that draw a model's score from the whole grid.
InFlight(at, xray_pred) ==
    /\ groq_client \in BOOLEAN
    /\ latest_analysis = EmptyDict
    /\ files = {[uuid |-> 1, ext |-> <<"p", "n", "g">>]}
    /\ uuids = 1
    /\ pc = [t \in Threads |-> IF t = "A" THEN at ELSE "idle"]
    /\ \E form \in Forms :
          /\ req = [t \in Threads |->
                       IF t = "A"
                       THEN [route |-> "/predict", form |-> form,
                             file |-> Upload(<<"x", ".", "p", "n", "g">>, TRUE)]
                       ELSE NoRequest]
          /\ local = [t \in Threads |->
                       IF t = "A"
                       THEN [of |-> "/predict",
                             patient_name |-> Strip(form.patient_name),
                             patient_age |-> Strip(form.patient_age),
                             notes |-> Strip(form.notes),
                             filename |-> [uuid |-> 1, ext |-> <<"p", "n", "g">>],
                             xray_pred |-> xray_pred,
                             pred |-> -1,
                             e |-> ""]
                       ELSE NoLocals]
    /\ resp = [t \in Threads |-> NoResponse]
    /\ eff = [t \in Threads |->
                 IF t = "A"
                 THEN [NoEffects EXCEPT !.saved = 1, !.gate = IF at = "stage2" THEN 1 ELSE 0]
                 ELSE NoEffects]

\* Stage 1 on every score of the grid.
GateInit == InFlight("stage1", -1)
GateNext == PredictStage1("A", Scores) \/ PredictStage2("A", ClassifierSamples)
GateSpec == GateInit /\ [][GateNext]_vars

\* Stage 2 on every score of the grid, after a gate score of 0.92.
ClassifierInit == InFlight("stage2", (92 * ScoreGrid) \div 100)
ClassifierNext == PredictStage2("A", Scores)
ClassifierSpec == ClassifierInit /\ [][ClassifierNext]_vars

\* The requests of two clients, served by threads A and B that interleave at
\* the handlers' blocking calls (app.run serves each request in a thread of
\* its own), on fewer inputs.
ConcurrentUploads ==
    { Upload(<<"x", ".", "p", "n", "g">>, TRUE), Upload(<<"x", ".", "t", "x", "t">>, TRUE) }
ConcurrentGateScores == { ScoreGrid \div 2 - 1, (92 * ScoreGrid) \div 100 }
ConcurrentClassifierScores == { (12 * ScoreGrid) \div 100, ScoreGrid \div 2 + 1 }
ConcurrentChatBodies ==
    { ChatBody("object", Message(TRUE, TRUE, <<>>)),
      ChatBody("object", Message(TRUE, TRUE, <<" ", "h", "i">>)) }
ConcurrentPayloads == { [json |-> "object", numeric |-> TRUE, image_filename |-> NoImage] }

ConcurrentNext ==
    \E t \in Threads :
        \/ PredictBegin(t, Forms, ConcurrentUploads)
        \/ PredictPreprocess(t)
        \/ PredictStage1(t, ConcurrentGateScores)
        \/ PredictStage2(t, ConcurrentClassifierScores)
        \/ ChatBegin(t, ConcurrentChatBodies)
        \/ ChatContext(t)
        \/ ChatCall(t)
        \/ DownloadReport(t, ConcurrentPayloads)

Concurrent == Init /\ [][ConcurrentNext]_vars

\* ------------------------------------------------------------------ claims
Max(a, b) == IF a >= b THEN a ELSE b
Abs(a) == IF a >= 0 THEN a ELSE -a

\* c is num / den rounded to the nearest integer, a tie to the even one
IsRounded(c, num, den) ==
    /\ 2 * Abs(c * den - num) <= den
    /\ 2 * Abs(c * den - num) = den => c % 2 = 0

\* the 200 "Invalid Image" payload of a rejected image
InvalidImageNotXray ==
    [status |-> 200, mimetype |-> "application/json",
     body |-> [prediction |-> "Invalid Image",
               message |-> "This does not appear to be a chest X-ray. Please upload a valid chest X-ray image."]]

\* thread t's /predict request got a score from the gate model
GateScored(t) == local[t].of = "/predict" /\ local[t].xray_pred >= 0

\* thread t's /predict request got a score from the classifier
ClassifierScored(t) == local[t].of = "/predict" /\ local[t].pred >= 0

\* C1: a /predict request whose gate score s is below 0.5 ends with the 200
\* "Invalid Image" payload, without a call of the classifier and without a
\* write of latest_analysis; one whose gate score is 0.5 or more goes on to
\* stage 2 and cannot end without the classifier having been called.
C1_GateDecides ==
    \A t \in Threads :
        GateScored(t) =>
            IF 2 * local[t].xray_pred < ScoreGrid
            THEN /\ pc[t] = "done"
                 /\ resp[t] = InvalidImageNotXray
                 /\ eff[t].cls = 0
                 /\ eff[t].wrote = 0
                 /\ latest_analysis = EmptyDict
            ELSE /\ pc[t] \in {"stage2", "done"}
                 /\ pc[t] = "done" => eff[t].cls = 1

\* a gate score of exactly 0.5 was followed by the classifier's call
C1_Witness ==
    \E t \in Threads :
        /\ GateScored(t)
        /\ 2 * local[t].xray_pred = ScoreGrid
        /\ pc[t] = "done"
        /\ eff[t].cls = 1

\* C2: for every classifier score p the label is PNEUMONIA iff p > 0.5 and the
\* confidence is max(p, 1-p) * 100 rounded to 2 decimals; gate score 0.92 and
\* classifier score 0.12 give NORMAL, 88.0, 12.0 and 88.0.
C2_LabelAndConfidence ==
    \A t \in Threads :
        ClassifierScored(t) =>
            LET p == local[t].pred
                b == resp[t].body
            IN  /\ pc[t] = "done"
                /\ resp[t].status = 200
                /\ resp[t].mimetype = "application/json"
                /\ b.prediction = (IF 2 * p > ScoreGrid THEN "PNEUMONIA" ELSE "NORMAL")
                /\ IsRounded(b.confidence, 10000 * Max(p, ScoreGrid - p), ScoreGrid)
                /\ (100 * local[t].xray_pred = 92 * ScoreGrid /\ 100 * p = 12 * ScoreGrid)
                   => /\ b.prediction = "NORMAL"
                      /\ b.confidence = 8800
                      /\ b.pneumonia_prob = 1200
                      /\ b.normal_prob = 8800

\* the end-to-end scenario: gate score 0.92, classifier score 0.12
C2_Witness ==
    \E t \in Threads :
        /\ ClassifierScored(t)
        /\ 100 * local[t].xray_pred = 92 * ScoreGrid
        /\ 100 * local[t].pred = 12 * ScoreGrid
        /\ resp[t].body.prediction = "NORMAL"

\* C10: pneumonia_prob and normal_prob are p * 100 and (1 - p) * 100 rounded
\* to 2 decimals, their sum is within 0.01 of 100.00, and the confidence is the
\* larger of the two.
C10_PercentagesSum ==
    \A t \in Threads :
        ClassifierScored(t) =>
            LET p == local[t].pred
                b == resp[t].body
            IN  /\ IsRounded(b.pneumonia_prob, 10000 * p, ScoreGrid)
                /\ IsRounded(b.normal_prob, 10000 * (ScoreGrid - p), ScoreGrid)
                /\ Abs(b.pneumonia_prob + b.normal_prob - 10000) <= 1
                /\ b.confidence = Max(b.pneumonia_prob, b.normal_prob)

\* a score whose percentage is an exact tie of the rounding (x.xx5)
C10_Witness ==
    \E t \in Threads :
        /\ ClassifierScored(t)
        /\ 2 * ((10000 * local[t].pred) % ScoreGrid) = ScoreGrid
        /\ resp[t].body.pneumonia_prob + resp[t].body.normal_prob = 10000

\* eff records every write: a step that changes latest_analysis or the upload
\* folder is a step of a thread whose eff counts it
EffectsRecordWrites ==
    [][/\ latest_analysis' # latest_analysis
           => \E t \in Threads : eff'[t].wrote = eff[t].wrote + 1
       /\ files' # files
           => \E t \in Threads : eff'[t].saved = 1 /\ (eff[t].saved = 0 \/ Idle(t))]_vars

AllBlank(text) == \A i \in 1..Len(text) : text[i] = " "

\* the body of a /chat request carries a message that is a string
StringMessage(body) == body.json = "object" /\ body.message.given /\ body.message.str

ChatUnavailable200 ==
    [status |-> 200, mimetype |-> "application/json",
     body |-> [reply |-> "AI assistant is temporarily unavailable. Please try again later."]]

\* C3: a finished /chat request with an empty or whitespace-only message has
\* status 400, whether or not the backend is configured; without a backend a
\* non-empty message gets the fixed unavailable reply with status 200.
C3_EmptyMessageIs400 ==
    \A t \in Threads :
        (req[t].route = "/chat" /\ pc[t] = "done" /\ StringMessage(req[t].body)) =>
            /\ AllBlank(req[t].body.message.text) => resp[t].status = 400
            /\ (~groq_client /\ ~AllBlank(req[t].body.message.text))
               => resp[t] = ChatUnavailable200

\* the upload is absent, or its name has no extension or one outside the list
DisallowedUpload(file) ==
    \/ ~file.present
    \/ ~HasDot(file.filename)
    \/ Lower(RSplitExt(file.filename)) \notin ALLOWED_EXTENSIONS

BadUpload400 ==
    [status |-> 400, mimetype |-> "application/json",
     body |-> [error |-> "Please upload a valid image (png, jpg, jpeg, bmp, webp)."]]

\* C4: a /predict request with a disallowed upload is answered 400 with the
\* fixed message whatever the file holds; it writes no file, calls neither
\* model and does not write latest_analysis.
C4_BadUploadIs400 ==
    \A t \in Threads :
        (req[t].route = "/predict" /\ DisallowedUpload(req[t].file)) =>
            /\ pc[t] = "done"
            /\ resp[t] = BadUpload400
            /\ eff[t].saved = 0
            /\ eff[t].gate = 0
            /\ eff[t].cls = 0
            /\ eff[t].wrote = 0

\* a decodable image named x.png.txt was refused
C4_Witness ==
    \E t \in Threads :
        /\ req[t].route = "/predict"
        /\ req[t].file = Upload(<<"x", ".", "p", "n", "g", ".", "t", "x", "t">>, TRUE)
        /\ resp[t].status = 400

CouldNotProcess200 ==
    [status |-> 200, mimetype |-> "application/json",
     body |-> [prediction |-> "Invalid Image",
               message |-> "Could not process the uploaded file. Please upload a valid image."]]

\* thread t serves or served an upload with an allowed name that PIL cannot decode
CorruptUpload(t) ==
    /\ req[t].route = "/predict"
    /\ ~DisallowedUpload(req[t].file)
    /\ ~req[t].file.decodable

\* C5: a /predict request whose allowed upload cannot be decoded ends with the
\* 200 could-not-process payload; neither model is called and latest_analysis
\* is not written.
C5_CorruptUploadIs200 ==
    \A t \in Threads :
        CorruptUpload(t) =>
            /\ pc[t] \in {"preprocess", "done"}
            /\ pc[t] = "done" => resp[t] = CouldNotProcess200
            /\ eff[t].gate = 0
            /\ eff[t].cls = 0
            /\ eff[t].wrote = 0

C5_Witness ==
    \E t \in Threads : CorruptUpload(t) /\ pc[t] = "done" /\ resp[t].status = 200

\* a model call of thread t's /predict request raised
ModelRaised(t) == local[t].of = "/predict" /\ local[t].e # ""

\* C6: when the gate model or the classifier raises, the response is a 500
\* JSON {error} with the exception's text; after a failure of the gate model
\* the classifier is not called; a /predict request that ends in 500 has not
\* written latest_analysis.
C6_ModelFailureIs500 ==
    \A t \in Threads :
        /\ ModelRaised(t) =>
              /\ pc[t] = "done"
              /\ resp[t].status = 500
              /\ resp[t].mimetype = "application/json"
              /\ DOMAIN resp[t].body = {"error"}
              /\ resp[t].body.error =
                    <<IF local[t].xray_pred < 0 THEN "X-ray detection failed: "
                                                ELSE "Pneumonia prediction failed: ",
                      local[t].e>>
              /\ local[t].xray_pred < 0 => eff[t].cls = 0
              /\ eff[t].wrote = 0
        /\ (req[t].route = "/predict" /\ resp[t].status = 500) =>
              ModelRaised(t) /\ eff[t].wrote = 0

\* the classifier raised after the gate had passed the image
C6_Witness ==
    \E t \in Threads :
        ModelRaised(t) /\ local[t].xray_pred >= 0 /\ eff[t].cls = 1 /\ resp[t].status = 500

\* the step in which thread t's /predict request returns its result
SuccessStep(t) == pc[t] = "stage2" /\ pc'[t] = "done" /\ resp'[t].status = 200

ResultFields ==
    {"prediction", "confidence", "pneumonia_prob", "normal_prob",
     "patient_name", "patient_age", "notes", "image_filename"}

\* C7, as claimed: right after a successful /predict, latest_analysis holds
\* every field of the returned result with the returned value, and a timestamp.
C7_SlotHoldsFullResult ==
    [][\A t \in Threads :
          SuccessStep(t) =>
              /\ ResultFields \cup {"timestamp"} \subseteq DOMAIN latest_analysis'
              /\ \A k \in ResultFields : latest_analysis'[k] = resp'[t].body[k]]_vars

\* C7, amended: right after a successful /predict, latest_analysis holds
\* exactly prediction, confidence, pneumonia_prob and normal_prob with the
\* returned values, patient_name with the returned name or "the patient" when
\* that is empty, and a timestamp; patient_age, notes and image_filename are
\* not stored.
C7_SlotHoldsChatContext ==
    [][\A t \in Threads :
          SuccessStep(t) =>
              LET b == resp'[t].body
                  d == latest_analysis'
              IN  /\ DOMAIN d = {"prediction", "confidence", "pneumonia_prob",
                                 "normal_prob", "patient_name", "timestamp"}
                  /\ d.prediction = b.prediction
                  /\ d.confidence = b.confidence
                  /\ d.pneumonia_prob = b.pneumonia_prob
                  /\ d.normal_prob = b.normal_prob
                  /\ d.patient_name =
                        (IF b.patient_name = <<>>
                         THEN <<"t", "h", "e", " ", "p", "a", "t", "i", "e", "n", "t">>
                         ELSE b.patient_name)
                  /\ d.timestamp \in 1..MaxTime]_vars

\* a result returned with an empty patient name, stored as "the patient"
C7_Witness ==
    \E t \in Threads :
        /\ ClassifierScored(t)
        /\ pc[t] = "done"
        /\ resp[t].body.patient_name = <<>>
        /\ Truthy(latest_analysis)
        /\ latest_analysis.patient_name = THE_PATIENT
        /\ latest_analysis.prediction = resp[t].body.prediction

\* C8: every failure response of /predict, /chat and /download-report is JSON.
C8_FailuresAreJson ==
    \A t \in Threads :
        (pc[t] = "done" /\ resp[t].status >= 400) => resp[t].mimetype = "application/json"

\* the LLM call of thread t's /chat request has been made
LlmCalled(t) == local[t].of = "/chat" /\ eff[t].llm >= 1

\* C9: with a backend and a non-empty message, a failed LLM call is answered
\* 500 with the reply text of the disabled-backend path, a successful one 200
\* with the first completion's text; latest_analysis is not written.
C9_ChatCallOutcome ==
    \A t \in Threads :
        LlmCalled(t) =>
            LET o == local[t].response
            IN  /\ pc[t] = "done"
                /\ groq_client
                /\ ~AllBlank(req[t].body.message.text)
                /\ IF o.raised \/ o.choices = <<>>
                   THEN /\ resp[t] = [ChatUnavailable200 EXCEPT !.status = 500]
                        /\ resp[t].body.reply = ChatUnavailableResponse.body.reply
                   ELSE resp[t] = [status |-> 200, mimetype |-> "application/json",
                                   body |-> [reply |-> Head(o.choices)]]
                /\ eff[t].llm = 1
                /\ eff[t].wrote = 0

\* the LLM call raised and the fallback reply went out with status 500
C9_Witness ==
    \E t \in Threads :
        LlmCalled(t) /\ local[t].response.raised /\ resp[t].status = 500

\* the LLM call of thread t's /chat request raised, or returned no choice
LlmFailed(t) ==
    LlmCalled(t) /\ (local[t].response.raised \/ local[t].response.choices = <<>>)

\* the gate model raised in thread t's /predict request
GateFailed(t) == ModelRaised(t) /\ local[t].xray_pred < 0

\* the classifier raised in thread t's /predict request
ClassifierFailed(t) == ModelRaised(t) /\ local[t].xray_pred >= 0

\* C11: no external call is retried. Within one request the gate model is
\* called at most once, the classifier at most once and only after the gate
\* model returned a score of 0.5 or more in that request, the LLM at most
\* once; a request in which one of these calls failed has ended, with no call
\* made after the failed one.
C11_NoRetry ==
    \A t \in Threads :
        /\ eff[t].gate <= 1
        /\ eff[t].cls <= 1
        /\ eff[t].llm <= 1
        /\ eff[t].cls = 1 =>
               /\ eff[t].gate = 1
               /\ GateScored(t)
               /\ 2 * local[t].xray_pred >= ScoreGrid
        /\ GateFailed(t) =>
               pc[t] = "done" /\ eff[t].gate = 1 /\ eff[t].cls = 0 /\ eff[t].llm = 0
        /\ ClassifierFailed(t) =>
               pc[t] = "done" /\ eff[t].gate = 1 /\ eff[t].cls = 1 /\ eff[t].llm = 0
        /\ LlmFailed(t) =>
               pc[t] = "done" /\ eff[t].gate = 0 /\ eff[t].cls = 0 /\ eff[t].llm = 1

\* the LLM call failed, and the request ended after that one call
C11_Witness ==
    \E t \in Threads :
        LlmFailed(t) /\ pc[t] = "done" /\ eff[t].llm = 1 /\ resp[t].status = 500

\* the four result fields are those of one prediction
OnePrediction(prediction, confidence, pneumonia_prob, normal_prob) ==
    /\ confidence = (IF prediction = "PNEUMONIA" THEN pneumonia_prob ELSE normal_prob)
    /\ prediction = "PNEUMONIA" => pneumonia_prob >= 5000
    /\ prediction = "NORMAL" => pneumonia_prob <= 5000

\* the slot is empty or has every key of a record, with the result of one
\* prediction
SlotWhole ==
    \/ latest_analysis = EmptyDict
    \/ /\ DOMAIN latest_analysis = {CONTEXT_KEYS[i] : i \in 1..Len(CONTEXT_KEYS)}
       /\ OnePrediction(latest_analysis.prediction, latest_analysis.confidence,
                        latest_analysis.pneumonia_prob, latest_analysis.normal_prob)

\* the record of the /predict request of thread t that returns in this step
WrittenBy(t) ==
    LET b == resp'[t].body
    IN  [prediction |-> b.prediction,
         confidence |-> b.confidence,
         patient_name |-> IF b.patient_name = <<>> THEN THE_PATIENT ELSE b.patient_name,
         pneumonia_prob |-> b.pneumonia_prob,
         normal_prob |-> b.normal_prob,
         timestamp |-> Get(latest_analysis', "timestamp")]

\* a step changes the slot only if a /predict request succeeds in it, and a
\* /predict request that succeeds leaves its own record, whatever was there
SlotWrites ==
    /\ \A t \in Threads : SuccessStep(t) => latest_analysis' = WrittenBy(t)
    /\ latest_analysis' # latest_analysis => \E t \in Threads : SuccessStep(t)

\* thread t's /chat request is building its context
BuildingContext(t) == local[t].of = "/chat" /\ pc[t] = "context"

\* the context that a /chat request has built is a value of the slot: no
\* report, or the record of one /predict
ContextIsOneRecord ==
    \A t \in Threads :
        (local[t].of = "/chat" /\ local[t].context_str.read) =>
            LET c == local[t].context_str
            IN  c.report =>
                   /\ Len(c.values) = Len(CONTEXT_KEYS)
                   /\ OnePrediction(c.values[2], c.values[3], c.values[4], c.values[5])

\* each step of a context's construction takes what the slot holds in that
\* step: the outcome of the test, then one field after the other
ContextReads ==
    \A t \in Threads :
        (BuildingContext(t) /\ local'[t] # local[t]) =>
            LET c == local[t].context_str
                k == local'[t].context_str
            IN  IF ~c.tested
                THEN k.report = (latest_analysis # EmptyDict) /\ k.values = <<>>
                ELSE /\ k.report
                     /\ Len(k.values) = Len(c.values) + 1
                     /\ \A i \in 1..Len(c.values) : k.values[i] = c.values[i]
                     /\ latest_analysis # EmptyDict
                     /\ k.values[Len(k.values)] = latest_analysis[CONTEXT_KEYS[Len(k.values)]]

\* C12, as claimed: under any interleaving of requests the slot is empty or
\* the complete record of one successful /predict, only a successful /predict
\* changes it, the last write wins, and the context a /chat request sends is
\* a value of the slot.
C12_ContextIsSlotValue ==
    /\ []SlotWhole
    /\ [][SlotWrites]_vars
    /\ []ContextIsOneRecord

\* C12, amended: under any interleaving of requests the slot is empty or the
\* complete record of one successful /predict, only a successful /predict
\* changes it and the last write wins; a /chat request reads the slot once
\* per field, so each field of the context it sends is the slot's value of
\* that field at the time that field is read.
C12_ContextFieldsAreSlotFields ==
    /\ []SlotWhole
    /\ [][SlotWrites]_vars
    /\ [][ContextReads]_vars

\* a got its own analysis, b's /predict then wrote another one, and the chat
\* that a made next was answered with the analysis of b
C12_Witness ==
    \E a \in Threads : \E b \in Threads \ {a} :
        /\ LlmCalled(a)
        /\ pc[a] = "done"
        /\ resp[a].status = 200
        /\ latest_analysis # EmptyDict
        /\ local[a].context_str = ContextOf(latest_analysis)
        /\ local[a].own.given
        /\ latest_analysis #
               StoredAnalysis(local[a].own.pred, local[a].own.patient_name, latest_analysis.timestamp)
        /\ ClassifierScored(b)
        /\ pc[b] = "done"
        /\ resp[b].status = 200
        /\ latest_analysis =
               StoredAnalysis(local[b].pred, local[b].patient_name, latest_analysis.timestamp)
====
